---- MODULE Spec2Model ----
(***************************************************************************)
(* Model of the SOP RAG agent backend: document ingestion                   *)
(* (document_processor.py, vector_store.py), the query pipeline             *)
(* (rag_chain.py) and the HTTP handlers (api/index.py).                     *)
(*                                                                         *)
(* Text is a sequence of one-character strings over {"a", "b", NUL, WS}.    *)
(* A page's raw text is a sequence of paragraphs (its splits on the first   *)
(* separator "\n\n"); each paragraph carries its characters and its token   *)
(* count under the tokenizer.  An optional value (folder_path, page_number) *)
(* is <<>> for None and <<v>> for a value.                                  *)
(***************************************************************************)
EXTENDS Integers, Sequences, FiniteSets, TLC

\* ------------------------------------------------------------------ bounds
MaxRuns == 2

\* ------------------------------------------------------- program constants
D == 3072
chunk_size == 1000
chunk_overlap == 200
NoResultsAnswer == <<"I couldn't find any relevant information in the documents to answer your question.">>

NUL == "NUL"
WS == " "
None == <<>>

\* ------------------------------------------------------------ text helpers
RECURSIVE lstrip(_)
lstrip(s) == IF s # <<>> /\ Head(s) = WS THEN lstrip(Tail(s)) ELSE s

RECURSIVE rstrip(_)
rstrip(s) ==
    IF s # <<>> /\ s[Len(s)] = WS THEN rstrip(SubSeq(s, 1, Len(s) - 1)) ELSE s

\* str.strip()
strip(s) == rstrip(lstrip(s))

IsNotNul(c) == c # NUL

\* str.replace('\x00', '')
remove_nul(s) == SelectSeq(s, IsNotNul)

\* chunk['text'].replace('\x00', '').strip()
sanitize(s) == strip(remove_nul(s))

\* ------------------------------------------------------------- the corpus
Para(chars, tokens) == [s |-> chars, t |-> tokens]

\* The files a data directory may hold.  ok = FALSE: the parser raises.
\* For a pdf, pages is one raw text per physical page; for a docx, pages is
\* a single entry holding the document's paragraphs.
FileA ==
    [folder |-> None, name |-> "a.pdf", ext |-> ".pdf", ok |-> TRUE,
     pages |-> << <<Para(<<"a">>, 600), Para(<<NUL, NUL>>, 600), Para(<<"b">>, 600)>> >>]

FileSubA ==
    [folder |-> <<"sub">>, name |-> "a.pdf", ext |-> ".pdf", ok |-> TRUE,
     pages |-> << <<Para(<<"a">>, 300), Para(<<"b", NUL>>, 300)>>,
                  <<Para(<<WS>>, 1)>>,
                  <<Para(<<"b">>, 600)>> >>]

FileB ==
    [folder |-> None, name |-> "b.docx", ext |-> ".docx", ok |-> TRUE,
     pages |-> << <<Para(<<"b">>, 700), Para(<<WS>>, 1), Para(<<"a", "b">>, 700)>> >>]

FileCorrupt ==
    [folder |-> None, name |-> "c.pdf", ext |-> ".pdf", ok |-> FALSE,
     pages |-> << <<Para(<<"a">>, 600)>> >>]

FileNul ==
    [folder |-> <<"sub">>, name |-> "n.pdf", ext |-> ".pdf", ok |-> TRUE,
     pages |-> << <<Para(<<NUL>>, 5)>> >>]

FileTxt ==
    [folder |-> None, name |-> "d.txt", ext |-> ".txt", ok |-> TRUE,
     pages |-> << <<Para(<<"a">>, 5)>> >>]

\* What rglob('*') may yield in the data folders considered.
Listings ==
    {<<>>,
     <<FileA, FileSubA>>,
     <<FileCorrupt, FileB, FileTxt>>,
     <<FileNul>>}

\* ------------------------------------------------------------ extraction
\* The characters of a text: its paragraphs joined by the separator they
\* were split on.
RECURSIVE Chars(_)
Chars(paras) ==
    IF paras = <<>> THEN <<>>
    ELSE IF Len(paras) = 1 THEN Head(paras).s
    ELSE Head(paras).s \o <<WS>> \o Chars(Tail(paras))

\* Pages of a parsed pdf: 1-based page numbers, pages whose text strips to
\* nothing are left out.
RECURSIVE pdf_pages(_, _)
pdf_pages(raw, page_num) ==
    IF page_num > Len(raw) THEN <<>>
    ELSE (IF strip(Chars(raw[page_num])) # <<>>
          THEN <<[text |-> raw[page_num], page_number |-> <<page_num>>]>>
          ELSE <<>>) \o pdf_pages(raw, page_num + 1)

\* [raised |-> TRUE] when the parser raises, else the pages.
extract_text_from_pdf(f) ==
    IF ~f.ok THEN [raised |-> TRUE, pages |-> <<>>]
    ELSE [raised |-> FALSE, pages |-> pdf_pages(f.pages, 1)]

NonBlankPara(p) == strip(p.s) # <<>>

extract_text_from_docx(f) ==
    IF ~f.ok THEN [raised |-> TRUE, pages |-> <<>>]
    ELSE LET full_text == SelectSeq(f.pages[1], NonBlankPara)
         IN  [raised |-> FALSE,
              pages |-> IF strip(Chars(full_text)) # <<>>
                        THEN <<[text |-> full_text, page_number |-> None]>>
                        ELSE <<>>]

\* -------------------------------------------------------------- chunking
\* RecursiveCharacterTextSplitter with length_function = count_tokens.  A
\* text is the sequence of its splits on the coarsest separator it holds,
\* each with its token count; a split of chunk_size tokens or more is split
\* again, here into its characters (the separator ""), and a character is
\* not split further.  Splits under chunk_size are merged greedily into
\* chunks of at most chunk_size tokens, the tail of a chunk (at most
\* chunk_overlap tokens) opening the next one; a merged chunk is stripped of
\* whitespace and an empty one is not emitted.  A chunk is kept with its
\* token count, its number of splits and the places in the text of its
\* first and last split.
RECURSIVE count_tokens(_)
count_tokens(paras) ==
    IF paras = <<>> THEN 0 ELSE Head(paras).t + count_tokens(Tail(paras))

\* Characters split on "" are joined by nothing.
RECURSIVE Flat(_)
Flat(pieces) == IF pieces = <<>> THEN <<>> ELSE Head(pieces).s \o Flat(Tail(pieces))

join_docs(cur, by_chars) == strip(IF by_chars THEN Flat(cur) ELSE Chars(cur))

merged_doc(cur, by_chars) ==
    [text |-> join_docs(cur, by_chars), t |-> count_tokens(cur), units |-> Len(cur),
     from |-> cur[1].at, to |-> cur[Len(cur)].at]

RECURSIVE shrink(_, _, _, _)
shrink(cur, len, size, overlap) ==
    LET total == count_tokens(cur)
    IN  IF total > overlap \/ (total + len > size /\ total > 0)
        THEN shrink(Tail(cur), len, size, overlap)
        ELSE cur

RECURSIVE merge_splits(_, _, _, _, _, _)
merge_splits(splits, docs, cur, size, overlap, by_chars) ==
    IF splits = <<>>
    THEN IF cur # <<>> /\ join_docs(cur, by_chars) # <<>>
         THEN Append(docs, merged_doc(cur, by_chars)) ELSE docs
    ELSE LET d == Head(splits)
             over == count_tokens(cur) + d.t > size
             emit == over /\ cur # <<>> /\ join_docs(cur, by_chars) # <<>>
         IN  merge_splits(Tail(splits),
                          IF emit THEN Append(docs, merged_doc(cur, by_chars)) ELSE docs,
                          Append(IF over /\ cur # <<>>
                                 THEN shrink(cur, d.t, size, overlap) ELSE cur, d),
                          size, overlap, by_chars)

\* The characters of a split, each with an equal share of its tokens.
char_splits(p) ==
    [j \in 1..Len(p.s) |-> [s |-> <<p.s[j]>>, t |-> p.t \div Len(p.s), at |-> <<p.at[1], j>>]]

\* _split_text: the splits under chunk_size wait in `good`; a longer one has
\* them merged first, and is split on the next separator or, when there is
\* none left, appended as it is.
RECURSIVE split_text(_, _, _, _, _, _)
split_text(splits, good, final, size, overlap, by_chars) ==
    IF splits = <<>>
    THEN final \o merge_splits(good, <<>>, <<>>, size, overlap, by_chars)
    ELSE LET p == Head(splits)
             flushed == final \o merge_splits(good, <<>>, <<>>, size, overlap, by_chars)
         IN  IF p.t < size
             THEN split_text(Tail(splits), Append(good, p), final, size, overlap, by_chars)
             ELSE IF by_chars
             THEN split_text(Tail(splits), <<>>,
                             Append(flushed, [text |-> p.s, t |-> p.t, units |-> 1,
                                              from |-> p.at, to |-> p.at]),
                             size, overlap, by_chars)
             ELSE split_text(Tail(splits), <<>>,
                             flushed \o split_text(char_splits(p), <<>>, <<>>,
                                                   size, overlap, TRUE),
                             size, overlap, by_chars)

\* text_splitter.split_text(text), each chunk with its measures.
split_chunks(text, size, overlap) ==
    split_text([i \in 1..Len(text) |-> [s |-> text[i].s, t |-> text[i].t, at |-> <<i, 0>>]],
               <<>>, <<>>, size, overlap, FALSE)

chunk_text_by_tokens(text) ==
    LET chunks == split_chunks(text, chunk_size, chunk_overlap)
    IN  [i \in 1..Len(chunks) |-> chunks[i].text]

\* ------------------------------------------------------ process_document
\* Variant: chunk_index counts from 1.
page_chunks_from_one(f, page_data, file_type) ==
    LET page_chunks == chunk_text_by_tokens(page_data.text)
    IN  [idx \in 1..Len(page_chunks) |->
            [text |-> page_chunks[idx],
             source_file |-> f.name,
             folder_path |-> f.folder,
             page_number |-> page_data.page_number,
             chunk_index |-> idx,
             metadata |-> [file_path |-> f.folder \o <<f.name>>,
                           file_type |-> file_type]]]

page_chunks_of(f, page_data, file_type) ==
    LET page_chunks == chunk_text_by_tokens(page_data.text)
    IN  [idx \in 1..Len(page_chunks) |->
            [text |-> page_chunks[idx],
             source_file |-> f.name,
             folder_path |-> f.folder,
             page_number |-> page_data.page_number,
             chunk_index |-> idx - 1,
             metadata |-> [file_path |-> f.folder \o <<f.name>>,
                           file_type |-> file_type]]]

RECURSIVE chunks_of_pages(_, _, _)
chunks_of_pages(f, pages, file_type) ==
    IF pages = <<>> THEN <<>>
    ELSE page_chunks_of(f, Head(pages), file_type)
         \o chunks_of_pages(f, Tail(pages), file_type)

\* A parser failure is caught and logged: the file yields no chunk.
process_document(f) ==
    IF f.ext = ".pdf"
    THEN LET got == extract_text_from_pdf(f)
         IN  IF got.raised THEN <<>> ELSE chunks_of_pages(f, got.pages, "pdf")
    ELSE IF f.ext \in {".docx", ".doc"}
    THEN LET got == extract_text_from_docx(f)
         IN  IF got.raised THEN <<>> ELSE chunks_of_pages(f, got.pages, "docx")
    ELSE <<>>

supported_extensions == {".pdf", ".docx", ".doc"}

\* Variant: a parser failure is not caught and ends the scan.
RECURSIVE scan_files_aborting(_)
scan_files_aborting(files) ==
    IF files = <<>> THEN [all_chunks |-> <<>>, files_processed |-> 0]
    ELSE LET rest == scan_files_aborting(Tail(files))
             f == Head(files)
         IN  IF f.ext \notin supported_extensions THEN rest
             ELSE IF ~f.ok THEN [all_chunks |-> <<>>, files_processed |-> 0]
             ELSE [all_chunks |-> process_document(f) \o rest.all_chunks,
                   files_processed |-> rest.files_processed + 1]

RECURSIVE scan_files(_)
scan_files(files) ==
    IF files = <<>> THEN [all_chunks |-> <<>>, files_processed |-> 0]
    ELSE LET rest == scan_files(Tail(files))
             f == Head(files)
         IN  IF f.ext \in supported_extensions
             THEN [all_chunks |-> process_document(f) \o rest.all_chunks,
                   files_processed |-> rest.files_processed + 1]
             ELSE rest

scan_and_process_documents(dir) ==
    IF ~dir.exists THEN [all_chunks |-> <<>>, files_processed |-> 0]
    ELSE scan_files(dir.files)

\* ------------------------------------------------ embedding collaborator
\* A vector is kept as its number of components and its direction: 0, 1, 2
\* stand for 0, 90 and 180 degrees, so the cosine similarity of two vectors
\* is 1, 0 or -1.  The number of components is that of the configured
\* embedding model; the direction depends on the text alone.
ModelDims == {D, D \div 2}

direction(text) ==
    IF text # <<>> /\ Head(text) = "a" THEN 0
    ELSE IF text # <<>> /\ Head(text) = "b" THEN 1
    ELSE 2

embedding_of(text, dim) == [dim |-> dim, dir |-> direction(text)]

\* The questions asked.
UserQueries == {<<"a">>, <<"?">>}

\* The top_k values asked for.
TopKs == {0, 2}

EmbeddingErrors == {"Request timed out.", "Rate limit reached"}

Abs(n) == IF n < 0 THEN -n ELSE n

\* 1 - (embedding <=> query)
similarity(e, q) == 1 - Abs(e.dir - q.dir)

\* ---------------------------------------------------------- vector store
\* The row store_embeddings builds for a chunk; created_at is the time of
\* the inserting transaction.
row_of(chunk, embedding, now) ==
    [chunk_text |-> sanitize(chunk.text),
     embedding |-> embedding,
     source_file |-> chunk.source_file,
     folder_path |-> chunk.folder_path,
     page_number |-> chunk.page_number,
     chunk_index |-> chunk.chunk_index,
     metadata |-> chunk.metadata,
     created_at |-> now]

\* The values list: chunks whose text is empty after sanitizing are skipped.
RECURSIVE build_values(_, _, _)
build_values(chunks, embs, now) ==
    IF chunks = <<>> THEN <<>>
    ELSE (IF sanitize(Head(chunks).text) = <<>> THEN <<>>
          ELSE <<row_of(Head(chunks), Head(embs), now)>>)
         \o build_values(Tail(chunks), Tail(embs), now)

\* Variant: the embedding column takes a vector of any length.
row_accepted_any_length(row) == TRUE

\* The table's column constraints: chunk_text NOT NULL, embedding vector(3072).
row_accepted(row) == row.embedding.dim = D

\* A database state: the committed table and the rows the open transaction
\* of store_embeddings has inserted so far.
execute_values(db, row) == [table |-> db.table, txn |-> Append(db.txn, row)]

\* Variant: the table is cleared before the new rows are kept, as with the
\* clear_all_chunks() call that load_documents leaves commented out.
commit_replacing(db) == [table |-> db.txn, txn |-> <<>>]

commit(db) == [table |-> db.table \o db.txn, txn |-> <<>>]

\* Variant: the rows inserted before the failure are kept.
rollback_keeping_rows(db) == [table |-> db.table \o db.txn, txn |-> <<>>]

rollback(db) == [table |-> db.table, txn |-> <<>>]

\* The rows another connection reads.
visible_rows(db) == db.table

StoreErrors == {"connection to server failed"}

DimensionError == "expected 3072 dimensions"

\* search_similar_chunks: the rows at least `threshold` similar, nearest
\* first, at most top_k of them; rows equally near come in any order.
threshold == 0

Eligible(rows, q) == {i \in 1..Len(rows) : similarity(rows[i].embedding, q) >= threshold}

Min(a, b) == IF a < b THEN a ELSE b

search_orders(rows, q, k) ==
    LET el == Eligible(rows, q)
        n == Min(k, Cardinality(el))
    IN  {r \in [1..n -> el] :
            /\ \A i, j \in 1..n : i < j =>
                  /\ r[i] # r[j]
                  /\ similarity(rows[r[i]].embedding, q) >= similarity(rows[r[j]].embedding, q)
            /\ \A x \in el : (\A i \in 1..n : r[i] # x) =>
                  \A i \in 1..n :
                     similarity(rows[r[i]].embedding, q) >= similarity(rows[x].embedding, q)}

result_chunk(row, q) ==
    [text |-> row.chunk_text,
     source_file |-> row.source_file,
     folder_path |-> row.folder_path,
     page_number |-> row.page_number,
     chunk_index |-> row.chunk_index,
     metadata |-> row.metadata,
     similarity |-> similarity(row.embedding, q)]

\* ------------------------------------------------------------- rag_chain
\* A citation is the sequence of its parts, joined by " > " when shown.
format_source_citation(chunk) ==
    (IF chunk.folder_path # None /\ chunk.folder_path # <<"">>
     THEN chunk.folder_path ELSE <<>>)
    \o <<chunk.source_file>>
    \o (IF chunk.page_number # None /\ chunk.page_number # <<0>>
        THEN <<"Page " \o ToString(chunk.page_number[1])>> ELSE <<>>)

InSeq(x, s) == \E i \in 1..Len(s) : s[i] = x

\* The loop of query_rag over the retrieved chunks: a citation is appended
\* only when it is not in the list yet.
\* Variant: every citation is appended.
RECURSIVE collect_sources_undeduplicated(_, _)
collect_sources_undeduplicated(chunks, sources) ==
    IF chunks = <<>> THEN sources
    ELSE collect_sources_undeduplicated(
             Tail(chunks), Append(sources, format_source_citation(Head(chunks))))

RECURSIVE collect_sources(_, _)
collect_sources(chunks, sources) ==
    IF chunks = <<>> THEN sources
    ELSE LET source_citation == format_source_citation(Head(chunks))
         IN  collect_sources(Tail(chunks),
                             IF InSeq(source_citation, sources) THEN sources
                             ELSE Append(sources, source_citation))

\* --------------------------------------------------- answer sanitization
\* The generated answer is a sequence of one-character strings.
NL == "\n"

IsAt(s, i, d) == i + Len(d) - 1 <= Len(s) /\ SubSeq(s, i, i + Len(d) - 1) = d

\* Length of the longest run from position i of characters other than c.
RECURSIVE RunLen(_, _, _)
RunLen(s, i, c) == IF i > Len(s) \/ s[i] = c THEN 0 ELSE 1 + RunLen(s, i + 1, c)

\* First position >= i where d starts, 0 if there is none.
RECURSIVE Find(_, _, _)
Find(s, i, d) ==
    IF i > Len(s) THEN 0 ELSE IF IsAt(s, i, d) THEN i ELSE Find(s, i + 1, d)

\* The backtick character.
BT == "BT"

Fence == <<BT, BT, BT>>

\* re.sub of a fenced block (three backticks, anything, lazily, three
\* backticks) by nothing
RECURSIVE sub_code_blocks(_, _)
sub_code_blocks(s, i) ==
    IF i > Len(s) THEN <<>>
    ELSE LET close == Find(s, i + 3, Fence)
         IN  IF IsAt(s, i, Fence) /\ close > 0
             THEN sub_code_blocks(s, close + 3)
             ELSE <<s[i]>> \o sub_code_blocks(s, i + 1)

\* re.sub(d + r'([^c]+)' + d, r'\1', answer) for a delimiter d made of c's
RECURSIVE sub_delim(_, _, _, _)
sub_delim(s, d, c, i) ==
    IF i > Len(s) THEN <<>>
    ELSE LET from == i + Len(d)
             m == RunLen(s, from, c)
         IN  IF IsAt(s, i, d) /\ m >= 1 /\ IsAt(s, from + m, d)
             THEN SubSeq(s, from, from + m - 1) \o sub_delim(s, d, c, from + m + Len(d))
             ELSE <<s[i]>> \o sub_delim(s, d, c, i + 1)

IsSpace(c) == c \in {WS, NL}

RECURSIVE SpanLen(_, _, _)
SpanLen(s, i, cs) == IF i > Len(s) \/ s[i] \notin cs THEN 0 ELSE 1 + SpanLen(s, i + 1, cs)

\* re.sub(r'^#+\s+', '', answer, flags=re.MULTILINE)
RECURSIVE sub_headers(_, _)
sub_headers(s, i) ==
    IF i > Len(s) THEN <<>>
    ELSE LET hashes == SpanLen(s, i, {"#"})
             spaces == SpanLen(s, i + hashes, {WS, NL})
         IN  IF (i = 1 \/ s[i - 1] = NL) /\ hashes >= 1 /\ spaces >= 1
             THEN sub_headers(s, i + hashes + spaces)
             ELSE <<s[i]>> \o sub_headers(s, i + 1)

\* re.sub(r'\[([^\]]+)\]\([^\)]+\)', r'\1', answer)
RECURSIVE sub_links(_, _)
sub_links(s, i) ==
    IF i > Len(s) THEN <<>>
    ELSE LET m == RunLen(s, i + 1, "]")
             u == RunLen(s, i + m + 3, ")")
         IN  IF /\ s[i] = "[" /\ m >= 1
                /\ IsAt(s, i + 1 + m, <<"]", "(">>)
                /\ u >= 1 /\ IsAt(s, i + m + 3 + u, <<")">>)
             THEN SubSeq(s, i + 1, i + m) \o sub_links(s, i + m + u + 4)
             ELSE <<s[i]>> \o sub_links(s, i + 1)

RECURSIVE lstrip_space(_)
lstrip_space(s) == IF s # <<>> /\ IsSpace(Head(s)) THEN lstrip_space(Tail(s)) ELSE s

RECURSIVE rstrip_space(_)
rstrip_space(s) ==
    IF s # <<>> /\ IsSpace(s[Len(s)]) THEN rstrip_space(SubSeq(s, 1, Len(s) - 1)) ELSE s

sanitize_answer(raw) ==
    LET a1 == sub_code_blocks(raw, 1)
        a2 == sub_delim(a1, <<"*", "*">>, "*", 1)
        a3 == sub_delim(a2, <<"*">>, "*", 1)
        a4 == sub_delim(a3, <<"_", "_">>, "_", 1)
        a5 == sub_delim(a4, <<"_">>, "_", 1)
        a6 == sub_headers(a5, 1)
        a7 == sub_links(a6, 1)
    IN  rstrip_space(lstrip_space(a7))

\* The markdown the passes are written for, around an inner text t.
Bold(t) == <<"*", "*">> \o t \o <<"*", "*">>

InlineCode(t) == <<BT>> \o t \o <<BT>>

Heading(t) == <<"#", WS>> \o t

Link(t, url) == <<"[">> \o t \o <<"]", "(">> \o url \o <<")">>

FencedBlock(t) == Fence \o t \o Fence

\* Message contents of a completion: up to MaxParts pieces of plain text,
\* white space and markdown, one after the other.
MaxParts == 3

AnswerParts ==
    {<<"x">>, <<WS>>, <<NL>>, Bold(<<"x">>), InlineCode(<<"x">>), Heading(<<"x">>),
     Link(<<"x">>, <<"u">>), FencedBlock(<<"x">>)}

RECURSIVE Concat(_)
Concat(parts) == IF parts = <<>> THEN <<>> ELSE Head(parts) \o Concat(Tail(parts))

AnswerTexts == {Concat(ps) : ps \in UNION {[1..n -> AnswerParts] : n \in 0..MaxParts}}

\* Answers the generation collaborator may give.
RawAnswers ==
    {<<"x">>,
     <<"*", "*", "x", "*", "*", WS>>,
     <<"#", WS, "[", "x", "]", "(", "u", ")">>}

GenerationErrors == {"generation failed"}

\* ---------------------------------------------------------- HTTP layer
\* An exception: `http` is the status of an HTTPException, 0 otherwise.
Exc(msg) == [http |-> 0, msg |-> msg]

HTTPException(status_code, detail) == [http |-> status_code, msg |-> detail]

\* str(e)
str(e) == IF e.http # 0 THEN ToString(e.http) \o ": " \o e.msg ELSE e.msg

NoLoadResp ==
    [status |-> 0, message |-> "", chunks_processed |-> 0, files_processed |-> 0,
     detail |-> ""]

LoadDocumentsResponse(chunks, files) ==
    [status |-> 200, message |-> "Documents loaded successfully",
     chunks_processed |-> chunks, files_processed |-> files, detail |-> ""]

\* `except Exception as e` of load_documents
load_documents_except(e) ==
    [NoLoadResp EXCEPT !.status = 500, !.detail = str(e)]

NoQueryResp == [status |-> 0, answer |-> <<>>, sources |-> <<>>, detail |-> ""]

QueryResponse(answer, sources) ==
    [status |-> 200, answer |-> answer, sources |-> sources, detail |-> ""]

\* `except Exception as e` of query
query_except(e) == [NoQueryResp EXCEPT !.status = 500, !.detail = str(e)]

\* `connects` is not part of the body: the outcomes of the calls of
\* get_db_connection the request made, in order.
NoHealthResp ==
    [http |-> 0, status |-> "", database_connected |-> FALSE, documents_loaded |-> FALSE,
     connects |-> <<>>]

HealthResponse(status, database_connected, documents_loaded, connects) ==
    [http |-> 200, status |-> status, database_connected |-> database_connected,
     documents_loaded |-> documents_loaded, connects |-> connects]

\* An exception leaves the handler: the framework answers 500.
health_unhandled(connects) == [NoHealthResp EXCEPT !.http = 500, !.connects = connects]

\* is_database_empty(): the connection is opened before the try, so its
\* failure is raised; a failing SELECT is caught and counts as empty.
is_database_empty(d, connects, select_ok) ==
    IF ~connects THEN [raised |-> TRUE, value |-> TRUE]
    ELSE [raised |-> FALSE, value |-> IF select_ok THEN visible_rows(d) = <<>> ELSE TRUE]

\* ------------------------------------------------------------------ state
VARIABLES
    chunking,         \* a call of chunk_text_by_tokens: its arguments and result
    healthResp,       \* the response to the latest GET /health
    dataDir,          \* the data folder: [exists, files]
    model_dim,        \* components of a vector of OPENAI_EMBEDDING_MODEL
    db,               \* [table, txn]
    started,          \* the startup event has run
    runs,             \* ingestion runs begun so far; the clock of created_at
    runLog,           \* per run: how it ended and the rows it had to write
    ingPc,            \* "idle", "embed", "connect", "insert"
    ingVia,           \* "http" or "startup"
    all_chunks,
    files_processed,
    embeddings,
    values,
    loadResp,         \* the response to the latest POST /load-documents
    qPc,              \* "idle", "embed", "retrieve", "generate", "sanitize"
    top_k,
    user_query,
    query_embedding,
    similar_chunks,
    searchLog,        \* the latest query's search: whether it returned, the
                      \* rows it read, the rows then inserted but uncommitted
    sources,
    steps,            \* the steps the latest query has entered, in order
    answer,           \* the answer text of query_rag, raw and then cleaned
    embedCalls,       \* embedding requests made for the text being embedded,
                      \* by the ingestion run and by the query
    queryResp         \* the response to the latest POST /query

ingVars ==
    <<runs, runLog, ingPc, ingVia, all_chunks, files_processed, embeddings, values>>

qVars ==
    <<qPc, top_k, user_query, query_embedding, similar_chunks, searchLog, sources, steps,
      answer, queryResp>>

vars == <<chunking, healthResp, dataDir, model_dim, db, started, loadResp, embedCalls, ingVars, qVars>>

NoSearch == [done |-> FALSE, rows |-> <<>>, pending |-> 0]

\* A call chunk_text_by_tokens(text, chunk_size, chunk_overlap) that has not
\* returned yet.
Chunking(text, size, overlap) ==
    [text |-> text, chunk_size |-> size, chunk_overlap |-> overlap, chunks |-> <<>>,
     returned |-> FALSE]

Init ==
    /\ chunking = Chunking(<<>>, chunk_size, chunk_overlap)
    /\ healthResp = NoHealthResp
    /\ dataDir \in {[exists |-> FALSE, files |-> <<>>]}
                   \cup {[exists |-> TRUE, files |-> l] : l \in Listings}
    /\ model_dim \in ModelDims
    /\ db = [table |-> <<>>, txn |-> <<>>]
    /\ started = FALSE
    /\ runs = 0
    /\ runLog = <<>>
    /\ ingPc = "idle"
    /\ ingVia = "http"
    /\ all_chunks = <<>>
    /\ files_processed = 0
    /\ embeddings = <<>>
    /\ values = <<>>
    /\ loadResp = NoLoadResp
    /\ qPc = "idle"
    /\ top_k = 0
    /\ user_query = <<>>
    /\ query_embedding = [dim |-> D, dir |-> 0]
    /\ similar_chunks = <<>>
    /\ searchLog = NoSearch
    /\ sources = <<>>
    /\ steps = <<>>
    /\ answer = <<>>
    /\ embedCalls = [ing |-> 0, q |-> 0]
    /\ queryResp = NoQueryResp

\* -------------------------------------------------------------- ingestion
\* load_documents_internal up to its first embedding call.
BeginInternal(via) ==
    LET scan == scan_and_process_documents(dataDir)
    IN  /\ runs' = runs + 1
        /\ ingVia' = via
        /\ all_chunks' = scan.all_chunks
        /\ files_processed' = scan.files_processed
        /\ embeddings' = <<>>
        /\ values' = <<>>
        /\ IF scan.all_chunks = <<>>
           THEN /\ ingPc' = "idle"
                /\ runLog' = Append(runLog, [state |-> "done", rows |-> 0])
                /\ loadResp' = IF via = "http"
                               THEN LoadDocumentsResponse(0, scan.files_processed)
                               ELSE loadResp
           ELSE /\ ingPc' = "embed"
                /\ runLog' = Append(runLog, [state |-> "running", rows |-> 0])
                /\ loadResp' = IF via = "http" THEN NoLoadResp ELSE loadResp

\* The run ends with exception e: the handler answers, the startup task logs.
IngestionRaises(e) ==
    /\ ingPc' = "idle"
    /\ runLog' = [runLog EXCEPT ![runs].state = "failed"]
    /\ loadResp' = IF ingVia = "http" THEN load_documents_except(e) ELSE loadResp
    /\ UNCHANGED <<runs, ingVia, all_chunks, files_processed, embeddings, values>>

\* POST /load-documents with the data folder absent.
LoadDocumentsMissing ==
    /\ ingPc = "idle"
    /\ ~dataDir.exists
    /\ loadResp' = load_documents_except(HTTPException(404, "Data folder not found"))
    /\ UNCHANGED <<chunking, healthResp, dataDir, model_dim, db, started, embedCalls, ingVars, qVars>>

\* POST /load-documents with the data folder present.
LoadDocuments ==
    /\ ingPc = "idle"
    /\ runs < MaxRuns
    /\ dataDir.exists
    /\ BeginInternal("http")
    /\ UNCHANGED <<chunking, healthResp, dataDir, model_dim, db, started, embedCalls, qVars>>

\* startup_event: the documents are loaded in a task when the table is empty
\* and the data folder exists.
StartupEvent ==
    /\ ~started
    /\ ingPc = "idle"
    /\ runs < MaxRuns
    /\ started' = TRUE
    /\ IF visible_rows(db) = <<>> /\ dataDir.exists
       THEN BeginInternal("startup")
       ELSE UNCHANGED <<ingVars, loadResp>>
    /\ UNCHANGED <<chunking, healthResp, dataDir, model_dim, db, embedCalls, qVars>>

\* get_embedding(chunk['text']) returns a vector.
EmbedChunk ==
    /\ ingPc = "embed"
    /\ embedCalls' = [embedCalls EXCEPT !.ing = 1]
    /\ embeddings' = Append(embeddings,
                            embedding_of(all_chunks[Len(embeddings) + 1].text, model_dim))
    /\ ingPc' = IF Len(embeddings') = Len(all_chunks) THEN "connect" ELSE "embed"
    /\ UNCHANGED <<chunking, healthResp, dataDir, model_dim, db, started, loadResp, qVars>>
    /\ UNCHANGED <<runs, runLog, ingVia, all_chunks, files_processed, values>>

\* get_embedding(chunk['text']) raises.
EmbedChunkFails ==
    /\ ingPc = "embed"
    /\ embedCalls' = [embedCalls EXCEPT !.ing = 1]
    /\ \E msg \in EmbeddingErrors : IngestionRaises(Exc(msg))
    /\ UNCHANGED <<chunking, healthResp, dataDir, model_dim, db, started, qVars>>

\* store_embeddings: the connection opens and the values are prepared.
StoreConnect ==
    /\ ingPc = "connect"
    /\ values' = build_values(all_chunks, embeddings, runs)
    /\ runLog' = [runLog EXCEPT ![runs].rows = Len(values')]
    /\ ingPc' = "insert"
    /\ UNCHANGED <<chunking, healthResp, dataDir, model_dim, db, started, loadResp, embedCalls, qVars>>
    /\ UNCHANGED <<runs, ingVia, all_chunks, files_processed, embeddings>>

\* store_embeddings: get_db_connection raises.
StoreConnectFails ==
    /\ ingPc = "connect"
    /\ \E msg \in StoreErrors : IngestionRaises(Exc(msg))
    /\ UNCHANGED <<chunking, healthResp, dataDir, model_dim, db, started, embedCalls, qVars>>

\* The INSERT takes the next row, or the table's constraints refuse it and
\* the transaction is rolled back.
InsertRow ==
    /\ ingPc = "insert"
    /\ Len(db.txn) < Len(values)
    /\ LET row == values[Len(db.txn) + 1]
       IN  IF row_accepted(row)
           THEN /\ db' = execute_values(db, row)
                /\ UNCHANGED <<loadResp, ingVars>>
           ELSE /\ db' = rollback(db)
                /\ IngestionRaises(Exc(DimensionError))
    /\ UNCHANGED <<chunking, healthResp, dataDir, model_dim, started, embedCalls, qVars>>

\* The INSERT or the COMMIT fails: rollback, and the error is raised again.
StoreFails ==
    /\ ingPc = "insert"
    /\ db' = rollback(db)
    /\ \E msg \in StoreErrors : IngestionRaises(Exc(msg))
    /\ UNCHANGED <<chunking, healthResp, dataDir, model_dim, started, embedCalls, qVars>>

\* conn.commit(), and load_documents_internal returns.
Commit ==
    /\ ingPc = "insert"
    /\ Len(db.txn) = Len(values)
    /\ db' = commit(db)
    /\ ingPc' = "idle"
    /\ runLog' = [runLog EXCEPT ![runs].state = "done"]
    /\ loadResp' = IF ingVia = "http"
                   THEN LoadDocumentsResponse(Len(all_chunks), files_processed)
                   ELSE loadResp
    /\ UNCHANGED <<chunking, healthResp, dataDir, model_dim, started, embedCalls, qVars>>
    /\ UNCHANGED <<runs, ingVia, all_chunks, files_processed, embeddings, values>>

\* ------------------------------------------------------------------ query
QueryRaises(e) ==
    /\ qPc' = "idle"
    /\ queryResp' = query_except(e)

\* POST /query arrives.
Query ==
    /\ qPc = "idle"
    /\ \E k \in TopKs : top_k' = k
    /\ \E uq \in UserQueries : user_query' = uq
    /\ qPc' = "embed"
    /\ similar_chunks' = <<>>
    /\ searchLog' = NoSearch
    /\ sources' = <<>>
    /\ steps' = <<>>
    /\ answer' = <<>>
    /\ queryResp' = NoQueryResp
    /\ UNCHANGED <<chunking, healthResp, dataDir, model_dim, db, started, loadResp, embedCalls, ingVars>>
    /\ UNCHANGED query_embedding

\* Step 1: get_embedding(user_query) returns.
EmbedQuery ==
    /\ qPc = "embed"
    /\ steps' = Append(steps, "Embed")
    /\ embedCalls' = [embedCalls EXCEPT !.q = 1]
    /\ query_embedding' = embedding_of(user_query, model_dim)
    /\ qPc' = "retrieve"
    /\ UNCHANGED <<chunking, healthResp, dataDir, model_dim, db, started, loadResp, ingVars>>
    /\ UNCHANGED <<top_k, user_query, similar_chunks, searchLog, sources, answer, queryResp>>

\* Variant: the failure of the embedding call is swallowed and the query
\* goes on to the search.
EmbedQueryFailsSwallowed ==
    /\ qPc = "embed"
    /\ steps' = Append(steps, "Embed")
    /\ embedCalls' = [embedCalls EXCEPT !.q = 1]
    /\ qPc' = "retrieve"
    /\ UNCHANGED <<chunking, healthResp, dataDir, model_dim, db, started, loadResp, ingVars>>
    /\ UNCHANGED <<top_k, user_query, query_embedding, similar_chunks, searchLog, sources,
                   answer, queryResp>>

\* Step 1: get_embedding(user_query) raises.
EmbedQueryFails ==
    /\ qPc = "embed"
    /\ steps' = Append(steps, "Embed")
    /\ embedCalls' = [embedCalls EXCEPT !.q = 1]
    /\ \E msg \in EmbeddingErrors : QueryRaises(Exc(msg))
    /\ UNCHANGED <<chunking, healthResp, dataDir, model_dim, db, started, loadResp, ingVars>>
    /\ UNCHANGED <<top_k, user_query, query_embedding, similar_chunks, searchLog, sources,
                   answer>>

\* Variant: the empty result is not answered at once.
no_results_ignored(chunks) == FALSE

\* `if not similar_chunks`
no_results(chunks) == chunks = <<>>

\* Step 2 and 3: the search; no result is answered at once, else the context
\* and the sources are built.
Retrieve ==
    /\ qPc = "retrieve"
    /\ LET rows == visible_rows(db)
       IN  /\ rows # <<>> => query_embedding.dim = D
           /\ searchLog' = [done |-> TRUE, rows |-> rows, pending |-> Len(db.txn)]
           /\ \E r \in search_orders(rows, query_embedding, top_k) :
                 similar_chunks' = [i \in 1..Len(r) |-> result_chunk(rows[r[i]], query_embedding)]
    /\ IF no_results(similar_chunks')
       THEN /\ qPc' = "idle"
            /\ steps' = steps \o <<"Retrieve", "ShortCircuit">>
            /\ sources' = <<>>
            /\ queryResp' = QueryResponse(NoResultsAnswer, <<>>)
       ELSE /\ qPc' = "generate"
            /\ steps' = steps \o <<"Retrieve", "Assemble", "Cite">>
            /\ sources' = collect_sources(similar_chunks', <<>>)
            /\ UNCHANGED queryResp
    /\ UNCHANGED <<chunking, healthResp, dataDir, model_dim, db, started, loadResp, embedCalls, ingVars>>
    /\ UNCHANGED <<top_k, user_query, query_embedding, answer>>

\* The search raises: no connection, or vectors of different dimensions.
RetrieveFails ==
    /\ qPc = "retrieve"
    /\ steps' = Append(steps, "Retrieve")
    /\ \/ \E msg \in StoreErrors : QueryRaises(Exc(msg))
       \/ /\ visible_rows(db) # <<>>
          /\ query_embedding.dim # D
          /\ QueryRaises(Exc("different vector dimensions"))
    /\ UNCHANGED <<chunking, healthResp, dataDir, model_dim, db, started, loadResp, embedCalls, ingVars>>
    /\ UNCHANGED <<top_k, user_query, query_embedding, similar_chunks, searchLog, sources,
                   answer>>

\* Steps 4 and 5: the completion returns; `answer` is the message content.
Generate ==
    /\ qPc = "generate"
    /\ steps' = Append(steps, "Generate")
    /\ qPc' = "sanitize"
    /\ \E raw \in RawAnswers : answer' = raw
    /\ UNCHANGED <<chunking, healthResp, dataDir, model_dim, db, started, loadResp, embedCalls, ingVars>>
    /\ UNCHANGED <<top_k, user_query, query_embedding, similar_chunks, searchLog, sources,
                   queryResp>>

\* The re.sub passes and the strip on `answer`, and query_rag returns.
Sanitize ==
    /\ qPc = "sanitize"
    /\ steps' = Append(steps, "Sanitize")
    /\ qPc' = "idle"
    /\ answer' = sanitize_answer(answer)
    /\ queryResp' = QueryResponse(answer', sources)
    /\ UNCHANGED <<chunking, healthResp, dataDir, model_dim, db, started, loadResp, embedCalls, ingVars>>
    /\ UNCHANGED <<top_k, user_query, query_embedding, similar_chunks, searchLog, sources>>

\* Step 5: the completion raises.
GenerateFails ==
    /\ qPc = "generate"
    /\ steps' = Append(steps, "Generate")
    /\ \E msg \in GenerationErrors : QueryRaises(Exc(msg))
    /\ UNCHANGED <<chunking, healthResp, dataDir, model_dim, db, started, loadResp, embedCalls, ingVars>>
    /\ UNCHANGED <<top_k, user_query, query_embedding, similar_chunks, searchLog, sources,
                   answer>>

\* The process is started again, with the embedding model then configured.
Restart ==
    /\ ingPc = "idle"
    /\ qPc = "idle"
    /\ started
    /\ started' = FALSE
    /\ \E d \in ModelDims : model_dim' = d
    /\ UNCHANGED <<chunking, healthResp, dataDir, db, loadResp, embedCalls, ingVars, qVars>>

\* GET /health: a connection is opened and closed inside the try, then
\* is_database_empty() is called outside it.
HealthCheck ==
    /\ \E c1, c2, select_ok \in BOOLEAN :
          LET database_connected == c1
              empty == is_database_empty(db, c2, select_ok)
          IN  healthResp' =
                 IF empty.raised THEN health_unhandled(<<c1, c2>>)
                 ELSE HealthResponse(IF database_connected THEN "healthy" ELSE "unhealthy",
                                     database_connected, ~empty.value, <<c1, c2>>)
    /\ UNCHANGED <<chunking, dataDir, model_dim, db, started, loadResp, embedCalls, ingVars,
                   qVars>>

\* chunk_text_by_tokens(text, chunk_size, chunk_overlap) returns.
ChunkTextByTokens ==
    /\ ~chunking.returned
    /\ chunking' = [chunking EXCEPT
                       !.chunks = split_chunks(chunking.text, chunking.chunk_size,
                                               chunking.chunk_overlap),
                       !.returned = TRUE]
    /\ UNCHANGED <<healthResp, dataDir, model_dim, db, started, loadResp, embedCalls, ingVars,
                   qVars>>

\* The texts chunk_text_by_tokens is called with: up to MaxParas splits of
\* one or two characters and of one to four tokens; the chunk sizes up to
\* MaxChunkSize tokens with every smaller overlap.
MaxParas == 3

MaxChunkSize == 3

ChunkParas ==
    {Para(<<"a">>, 1), Para(<<"b">>, 3), Para(<<WS>>, 1), Para(<<"a", "b">>, 2),
     Para(<<"b", "a">>, 4)}

ChunkTexts == UNION {[1..n -> ChunkParas] : n \in 0..MaxParas}

ChunkInit ==
    /\ \E text \in ChunkTexts : \E size \in 1..MaxChunkSize : \E overlap \in 0..(size - 1) :
          chunking = Chunking(text, size, overlap)
    /\ healthResp = NoHealthResp
    /\ dataDir = [exists |-> FALSE, files |-> <<>>]
    /\ model_dim = D
    /\ db = [table |-> <<>>, txn |-> <<>>]
    /\ started = FALSE
    /\ runs = 0
    /\ runLog = <<>>
    /\ ingPc = "idle"
    /\ ingVia = "http"
    /\ all_chunks = <<>>
    /\ files_processed = 0
    /\ embeddings = <<>>
    /\ values = <<>>
    /\ loadResp = NoLoadResp
    /\ qPc = "idle"
    /\ top_k = 0
    /\ user_query = <<>>
    /\ query_embedding = [dim |-> D, dir |-> 0]
    /\ similar_chunks = <<>>
    /\ searchLog = NoSearch
    /\ sources = <<>>
    /\ steps = <<>>
    /\ answer = <<>>
    /\ embedCalls = [ing |-> 0, q |-> 0]
    /\ queryResp = NoQueryResp

\* query_rag at the cleaning of the answer: the folder of two files has been
\* loaded once, the question has been embedded, its chunks retrieved and the
\* completion has returned a message content.
AnsweringDir == [exists |-> TRUE, files |-> <<FileA, FileSubA>>]

SanitizeInit ==
    LET scan == scan_and_process_documents(AnsweringDir)
        embs == [i \in 1..Len(scan.all_chunks) |->
                    embedding_of(scan.all_chunks[i].text, D)]
        rows == build_values(scan.all_chunks, embs, 1)
        uq == <<"a">>
        q == embedding_of(uq, D)
    IN  /\ chunking = Chunking(<<>>, chunk_size, chunk_overlap)
        /\ healthResp = NoHealthResp
        /\ dataDir = AnsweringDir
        /\ model_dim = D
        /\ db = [table |-> rows, txn |-> <<>>]
        /\ started = FALSE
        /\ runs = 1
        /\ runLog = <<[state |-> "done", rows |-> Len(rows)]>>
        /\ ingPc = "idle"
        /\ ingVia = "http"
        /\ all_chunks = scan.all_chunks
        /\ files_processed = scan.files_processed
        /\ embeddings = embs
        /\ values = rows
        /\ loadResp = LoadDocumentsResponse(Len(scan.all_chunks), scan.files_processed)
        /\ qPc = "sanitize"
        /\ top_k = 2
        /\ user_query = uq
        /\ query_embedding = q
        /\ \E r \in search_orders(rows, q, 2) :
              similar_chunks = [i \in 1..Len(r) |-> result_chunk(rows[r[i]], q)]
        /\ searchLog = [done |-> TRUE, rows |-> rows, pending |-> 0]
        /\ sources = collect_sources(similar_chunks, <<>>)
        /\ steps = <<"Embed", "Retrieve", "Assemble", "Cite", "Generate">>
        /\ answer \in AnswerTexts
        /\ embedCalls = [ing |-> 1, q |-> 1]
        /\ queryResp = NoQueryResp

Next ==
    \/ LoadDocumentsMissing
    \/ LoadDocuments
    \/ StartupEvent
    \/ EmbedChunk
    \/ EmbedChunkFails
    \/ StoreConnect
    \/ StoreConnectFails
    \/ InsertRow
    \/ StoreFails
    \/ Commit
    \/ Query
    \/ EmbedQuery
    \/ EmbedQueryFails
    \/ Retrieve
    \/ RetrieveFails
    \/ Generate
    \/ GenerateFails
    \/ Sanitize
    \/ Restart

Spec == Init /\ [][Next]_vars

\* The service loading documents while its health endpoint is polled.  GET
\* /health changes nothing the other operations read.
HealthNext ==
    \/ LoadDocumentsMissing
    \/ LoadDocuments
    \/ StartupEvent
    \/ EmbedChunk
    \/ EmbedChunkFails
    \/ StoreConnect
    \/ StoreConnectFails
    \/ InsertRow
    \/ StoreFails
    \/ Commit
    \/ HealthCheck

HealthSpec == Init /\ [][HealthNext]_vars

\* The chunking of every text of ChunkTexts with every size and overlap.
ChunkSpec == ChunkInit /\ [][ChunkTextByTokens]_vars

\* The cleaning of every message content of AnswerTexts.
SanitizeSpec == SanitizeInit /\ [][Sanitize]_vars

\* ================================================================ claims
\* Number of rows inserted by the transaction of run r.
RowsOfRun(rows, r) == Cardinality({i \in 1..Len(rows) : rows[i].created_at = r})

FilePath(f) == f.folder \o <<f.name>>

Extracted(f) == f.ext \in supported_extensions /\ f.ok

\* C1: POST /load-documents answers 404 exactly when the data folder is
\* missing; a missing folder is never answered with 500.
C1_MissingFolderIs404 ==
    loadResp.status # 0 => (loadResp.status = 404 <=> ~dataDir.exists)

\* C2: the chunks_processed a run returns is the number of rows the run
\* added to the table (chunks empty after sanitizing are not counted).
C2_CountIsRowsAdded ==
    (ingPc = "idle" /\ ingVia = "http" /\ loadResp.status = 200)
        => loadResp.chunks_processed = RowsOfRun(db.table, runs)

\* C3: the rows of a run are in the table all together or not at all: none
\* while the run is in progress or after it failed, all once it has ended
\* well; and a search, whenever it runs, reads none or all of them.
C3_AllOrNothing ==
    \A r \in 1..Len(runLog) :
        /\ runLog[r].state # "done" => RowsOfRun(db.table, r) = 0
        /\ runLog[r].state = "done" => RowsOfRun(db.table, r) = runLog[r].rows
        /\ RowsOfRun(searchLog.rows, r) \in {0, runLog[r].rows}

\* A search ran while a run had inserted rows it had not committed, that run
\* then failed, and an earlier run's rows are in the table.
C3_Witness ==
    /\ searchLog.done
    /\ searchLog.pending >= 1
    /\ runs = 2
    /\ runLog[2].state = "failed"
    /\ runLog[2].rows >= 2
    /\ runLog[1].state = "done"
    /\ db.table # <<>>

\* The chunks of the latest scan that come from file f.
RECURSIVE ChunksFrom(_, _)
ChunksFrom(chunks, path) ==
    IF chunks = <<>> THEN <<>>
    ELSE (IF Head(chunks).metadata.file_path = path THEN <<Head(chunks)>> ELSE <<>>)
         \o ChunksFrom(Tail(chunks), path)

\* The chunks of a file that parses: those of its pages, in page order.
FileChunks(f) ==
    IF f.ext = ".pdf" THEN chunks_of_pages(f, extract_text_from_pdf(f).pages, "pdf")
    ELSE chunks_of_pages(f, extract_text_from_docx(f).pages, "docx")

C5_NoResultShortCircuit ==
    (qPc = "idle" /\ searchLog.done /\ similar_chunks = <<>>)
        => /\ queryResp = QueryResponse(NoResultsAnswer, <<>>)
           /\ ~InSeq("Generate", steps)

\* A search over a table that holds rows returned nothing.
C5_Witness ==
    /\ qPc = "idle"
    /\ searchLog.done
    /\ searchLog.rows # <<>>
    /\ similar_chunks = <<>>
    /\ queryResp.status = 200

Citations == [i \in 1..Len(similar_chunks) |-> format_source_citation(similar_chunks[i])]

\* The citations kept at their first occurrence.
RECURSIVE FirstOccurrences(_, _)
FirstOccurrences(cs, i) ==
    IF i > Len(cs) THEN <<>>
    ELSE (IF \E j \in 1..(i - 1) : cs[j] = cs[i] THEN <<>> ELSE <<cs[i]>>)
         \o FirstOccurrences(cs, i + 1)

\* C6: the sources of a query result hold no string twice, hold the citation
\* of every retrieved chunk, and list them in the order of first occurrence
\* in the retrieval order, which is most similar first.
C6_SourcesAreFirstOccurrences ==
    queryResp.status = 200 =>
        /\ \A i, j \in 1..Len(queryResp.sources) :
              i # j => queryResp.sources[i] # queryResp.sources[j]
        /\ \A i \in 1..Len(Citations) : InSeq(Citations[i], queryResp.sources)
        /\ queryResp.sources = FirstOccurrences(Citations, 1)
        /\ \A i, j \in 1..Len(similar_chunks) :
              i < j => similar_chunks[i].similarity >= similar_chunks[j].similarity

\* A generated answer over two retrieved chunks of the same page.
C6_Witness ==
    /\ queryResp.status = 200
    /\ InSeq("Generate", steps)
    /\ Len(similar_chunks) = 2
    /\ Len(queryResp.sources) = 1

\* C7 as stated: for every (source_file, page_number) the chunk_index values
\* of the rows in the table are unique and are 0, 1, ..., n-1.
C7_IndicesContiguousPerSourcePage ==
    \A i \in 1..Len(db.table) :
        LET same == {j \in 1..Len(db.table) :
                        /\ db.table[j].source_file = db.table[i].source_file
                        /\ db.table[j].page_number = db.table[i].page_number}
        IN  /\ \A j \in same : j # i => db.table[j].chunk_index # db.table[i].chunk_index
            /\ db.table[i].chunk_index < Cardinality(same)

SamePage(x, y) ==
    x.metadata.file_path = y.metadata.file_path /\ x.page_number = y.page_number

\* C7 as amended: in one run, the chunks produced for a page of a file carry
\* 0, 1, ..., n-1 in chunking order, and the rows one run stores for a page
\* of a file carry increasing, hence unique, indices.
C7_IndicesPerRunFilePage ==
    /\ \A k \in 1..Len(all_chunks) :
          all_chunks[k].chunk_index =
             Cardinality({j \in 1..(k - 1) : SamePage(all_chunks[j], all_chunks[k])})
    /\ \A i, j \in 1..Len(db.table) :
          (/\ i < j
           /\ db.table[i].created_at = db.table[j].created_at
           /\ SamePage(db.table[i], db.table[j]))
              => db.table[i].chunk_index < db.table[j].chunk_index

\* Two runs over a folder with a.pdf and sub/a.pdf are stored: index 1 of
\* a.pdf page 1 was dropped as empty, and index 0 is there four times.
C7_Witness ==
    /\ dataDir.files = <<FileA, FileSubA>>
    /\ runs = 2
    /\ runLog[1].state = "done"
    /\ runLog[2].state = "done"
    /\ Len(db.table) = 8

BadBatch == \E i \in 1..Len(values) : values[i].embedding.dim # D

\* C8: every row of the table has a non-empty chunk_text and an embedding of
\* D components, and a batch holding a vector of another length ends without
\* changing the table.
C8_RowsWellFormed ==
    /\ [](\A i \in 1..Len(db.table) :
             db.table[i].chunk_text # <<>> /\ db.table[i].embedding.dim = D)
    /\ [][(ingPc = "insert" /\ BadBatch /\ ingPc' = "idle")
             => (db'.table = db.table /\ runLog'[runs].state = "failed")]_vars

\* A batch of vectors of another length was refused over a table that held
\* rows of an earlier run.
C8_Witness ==
    /\ ingPc = "idle"
    /\ runs = 2
    /\ values # <<>>
    /\ BadBatch
    /\ runLog[2].state = "failed"
    /\ loadResp.detail = DimensionError
    /\ db.table # <<>>

C10_FailureBodyIsGeneric ==
    (dataDir.exists /\ loadResp.status = 500 /\ queryResp.status = 500)
        => loadResp.detail = queryResp.detail

IsPrefix(p, s) == Len(p) <= Len(s) /\ SubSeq(s, 1, Len(p)) = p

ShortCircuitOrder == <<"Embed", "Retrieve", "ShortCircuit">>

\* The order of the steps as C11 states it.
StatedOrder == <<"Embed", "Retrieve", "Assemble", "Generate", "Sanitize", "Cite">>

\* The order query_rag has: the sources are collected in the loop that builds
\* the context, before the completion is asked for.
CodeOrder == <<"Embed", "Retrieve", "Assemble", "Cite", "Generate", "Sanitize">>

\* What C11 says of a failing Embed step: the error is the response, and the
\* search and the generation are not entered; the search is entered only with
\* the embedding of this query's text.
EmbedFailureEndsQuery ==
    /\ (qPc = "idle" /\ steps = <<"Embed">>)
          => /\ queryResp.status = 500
             /\ queryResp.detail \in EmbeddingErrors
             /\ ~searchLog.done
    /\ (queryResp.status = 500 /\ queryResp.detail \in EmbeddingErrors)
          => steps = <<"Embed">>
    /\ qPc = "retrieve" => query_embedding = embedding_of(user_query, model_dim)

\* C11 as stated: the steps of a query are entered in the order Embed,
\* Retrieve, then ShortCircuit or Assemble, Generate, Sanitize, Cite, none
\* twice; a failing Embed ends the query before the search.
C11_StepsInStatedOrder ==
    /\ IsPrefix(steps, ShortCircuitOrder) \/ IsPrefix(steps, StatedOrder)
    /\ EmbedFailureEndsQuery

\* C11 as amended: the order is Embed, Retrieve, then ShortCircuit or
\* Assemble, Cite, Generate, Sanitize, none twice; the short circuit is
\* taken exactly when the search returned nothing; a failing Embed ends the
\* query before the search.
C11_StepsInCodeOrder ==
    /\ IsPrefix(steps, ShortCircuitOrder) \/ IsPrefix(steps, CodeOrder)
    /\ searchLog.done => (InSeq("ShortCircuit", steps) <=> similar_chunks = <<>>)
    /\ (qPc = "idle" /\ queryResp.status = 200)
          => steps \in {ShortCircuitOrder, CodeOrder}
    /\ EmbedFailureEndsQuery

\* A query went through every step and was answered.
C11_Witness ==
    /\ qPc = "idle"
    /\ steps = CodeOrder
    /\ queryResp.status = 200
    /\ queryResp.sources # <<>>

\* The chunk a row stores: the row without its embedding and its time.
ChunkOfRow(row) ==
    [chunk_text |-> row.chunk_text,
     source_file |-> row.source_file,
     folder_path |-> row.folder_path,
     page_number |-> row.page_number,
     chunk_index |-> row.chunk_index,
     metadata |-> row.metadata]

ChunksOfRows(rows) == [i \in 1..Len(rows) |-> ChunkOfRow(rows[i])]

\* The chunks a successful ingestion of the data folder stores.
StoredChunksOf(dir) ==
    LET chunks == scan_and_process_documents(dir).all_chunks
        embs == [i \in 1..Len(chunks) |-> embedding_of(chunks[i].text, D)]
    IN  ChunksOfRows(build_values(chunks, embs, 0))

\* C12: ingestion only appends. Every step of a load-documents or a query
\* operation leaves the rows already in the table in place and unchanged,
\* and a step that changes the table appends to it one row for every chunk
\* that an ingestion of the data folder stores, whatever copies of these
\* chunks the table already holds.
C12_IngestionOnlyAppends ==
    [][/\ IsPrefix(db.table, db.table')
       /\ db.table' # db.table =>
              ChunksOfRows(SubSeq(db.table', Len(db.table) + 1, Len(db.table')))
                  = StoredChunksOf(dataDir)]_vars

\* Two ingestion runs over the same folder have succeeded, a query has been
\* answered from the rows, and the table holds every chunk twice.
C12_Witness ==
    /\ runs = 2
    /\ runLog[1].state = "done" /\ runLog[2].state = "done"
    /\ StoredChunksOf(dataDir) # <<>>
    /\ ChunksOfRows(db.table) = StoredChunksOf(dataDir) \o StoredChunksOf(dataDir)
    /\ queryResp.status = 200 /\ queryResp.sources # <<>>

\* A complete link, [..](..), is in s.
HasLink(s) ==
    \E i, j, k \in 1..Len(s) :
        /\ i < j /\ j + 1 < k
        /\ s[i] = "[" /\ s[j] = "]" /\ s[j + 1] = "(" /\ s[k] = ")"

\* No asterisk, no backtick, no hash at the start of a line, no link.
NoResidualMarkers(s) ==
    /\ ~InSeq("*", s)
    /\ ~InSeq(BT, s)
    /\ \A i \in 1..Len(s) : s[i] = "#" => ~(i = 1 \/ s[i - 1] = NL)
    /\ ~HasLink(s)

\* C13: the cleaning of an answer reduces bold text, inline code, a heading
\* at the start of a line and a link to their inner text, leaves no
\* asterisk, backtick, leading hash or link in the answer it returns, and
\* the answer returned has no white space at its ends.
C13_AnswerHasNoMarkup ==
    [][(qPc = "sanitize" /\ qPc' = "idle") =>
          /\ \A t \in {<<"x">>} :
                /\ answer = Bold(t) => answer' = t
                /\ answer = InlineCode(t) => answer' = t
                /\ answer = Heading(t) => answer' = t
                /\ answer = Link(t, <<"u">>) => answer' = t
          /\ NoResidualMarkers(answer')
          /\ answer' = rstrip_space(lstrip_space(answer'))
          /\ queryResp'.answer = answer']_vars

\* Place a of the text is not after place b.
NotAfter(a, b) == a[1] < b[1] \/ (a[1] = b[1] /\ a[2] <= b[2])

\* C14: every chunk the chunker returns has at most chunk_size tokens,
\* unless it is a single indivisible unit of more tokens, and then it is
\* flagged as oversized; an empty text gives no chunk; the chunks come in
\* the order of the text.
C14_ChunksWithinSizeOrFlagged ==
    chunking.returned =>
        LET chunks == chunking.chunks
        IN  /\ \A i \in 1..Len(chunks) :
                  \/ chunks[i].t <= chunking.chunk_size
                  \/ chunks[i].units = 1 /\ "oversized" \in DOMAIN chunks[i]
            /\ chunking.text = <<>> => chunks = <<>>
            /\ \A i, j \in 1..Len(chunks) :
                  i < j => /\ NotAfter(chunks[i].from, chunks[j].from)
                           /\ NotAfter(chunks[i].to, chunks[j].to)

\* C15: GET /health always completes with a body; when no connection to
\* the database can be opened the body says "unhealthy" and
\* database_connected = false; the status is "healthy" exactly when
\* database_connected is true.
C15_HealthAlwaysAnswers ==
    healthResp.http # 0 =>
        /\ healthResp.http = 200
        /\ healthResp.status \in {"healthy", "unhealthy"}
        /\ healthResp.status = "healthy" <=> healthResp.database_connected
        /\ healthResp.connects = <<FALSE, FALSE>> =>
               healthResp.status = "unhealthy" /\ ~healthResp.database_connected
====
